---- MODULE Spec2Model ----
(***************************************************************************)
(* mcld (tools/mcld/main.cpp): the command-line driver of MCLinker.        *)
(*                                                                         *)
(* main() parses the command line, determines the output file name,        *)
(* configures the alone::Linker engine, sets its output, hands it the      *)
(* positional object files and the -l namespecs merged by command-line     *)
(* position, and links.                                                    *)
(*                                                                         *)
(* Strings that stand for paths or names are sequences of components:      *)
(* "/tmp/x/y.o" is <<"/", "tmp", "x", "y.o">>, "a.out" is <<"a.out">>,     *)
(* the empty string is <<>>.  A path is absolute when its first component  *)
(* is the root directory "/".                                              *)
(*                                                                         *)
(* The options -sysroot and -dynamic-linker (main.cpp:184-190) only copy   *)
(* a value into the configuration and take no part in any control flow;    *)
(* they are left out of the state.                                         *)
(***************************************************************************)
EXTENDS Naturals, Sequences, FiniteSets

\* Longest command line (number of list-valued occurrences after argv[0]).
MaxArgs == 3

\* ---------------------------------------------------------------------------
\* Values

EXIT_SUCCESS == 0
EXIT_FAILURE == 1

DEFAULT_OUTPUT_PATH == <<"a.out">>

\* Linker::ErrorCode: kSuccess and any other code.
kSuccess == "kSuccess"
ErrorCodes == {"kSuccess", "kFailure"}

\* llvm::error_code of llvm::sys::fs::make_absolute.
errc_success == "success"
FsErrors == {"success", "no_such_file_or_directory"}

\* The directory llvm::sys::fs::current_path answers with.
CurrentDir == <<"/", "w">>

\* What the command line may hold.
FilePaths == {<<"/", "tmp", "x", "y.o">>, <<"b.o">>}
NameSpecs == {<<"m">>, <<"pthread">>}
WrapSymbols == {<<"malloc">>, <<"free">>}
SearchDirs == {<<"/", "lib">>, <<"usr">>}
OutputNames == {<<>>, <<"out.bin">>}
SONames == {<<>>, <<"libx.so">>}

\* What a read of element 0 of an empty std::vector<std::string> may yield
\* when it does not fault.
GarbageStrings == {<<>>, <<"g">>}

Tokens ==
    [kind : {"file"}, value : FilePaths] \cup [kind : {"l"}, value : NameSpecs]
    \cup [kind : {"wrap"}, value : WrapSymbols] \cup [kind : {"L"}, value : SearchDirs]

CommandLines == UNION {[1..n -> Tokens] : n \in 0..MaxArgs}

\* ---------------------------------------------------------------------------
\* State

VARIABLES
    argv,                 \* the occurrences on the command line, argv[1..]
    OptOutputFilename,    \* -o
    OptSOName,            \* -soname
    OptInputObjectFiles,  \* positional arguments, in order
    filePositions,        \* OptInputObjectFiles.getPosition(i)
    OptNameSpecList,      \* -l occurrences, in order
    libPositions,         \* OptNameSpecList.getPosition(i)
    OptWrapList,          \* -wrap occurrences, in order
    OptSearchDirList,     \* -L occurrences, in order
    currentPathError,     \* the file system's answer to current_path
    pc,                   \* where main() is
    OutputFilename,       \* main's local OutputFilename
    fileIt,               \* PrepareInputOutput's cursor into OptInputObjectFiles
    libIt,                \* PrepareInputOutput's cursor into OptNameSpecList
    calls,                \* the engine operations invoked so far, with results
    fsCalls,              \* the paths handed to make_absolute so far
    errs,                 \* what was written to llvm::errs()
    exitStatus,           \* <<>> while running, <<code>> once main returned
    earlier               \* what earlier calls of DetermineOutputFilename returned

vars ==
    <<argv, OptOutputFilename, OptSOName, OptInputObjectFiles, filePositions,
      OptNameSpecList, libPositions, OptWrapList, OptSearchDirList,
      currentPathError, pc, OutputFilename, fileIt, libIt, calls, fsCalls,
      errs, exitStatus, earlier>>

options ==
    <<argv, OptOutputFilename, OptSOName, OptInputObjectFiles, filePositions,
      OptNameSpecList, libPositions, OptWrapList, OptSearchDirList,
      currentPathError>>

\* ---------------------------------------------------------------------------
\* llvm::cl::ParseCommandLineOptions: a list option keeps its occurrences in
\* command-line order, each with the argv index it was found at.

OccurrencesOf(cmd, k) ==
    SelectSeq([i \in 1..Len(cmd) |-> i], LAMBDA i : cmd[i].kind = k)

ValuesOf(cmd, k) ==
    LET idx == OccurrencesOf(cmd, k) IN [j \in 1..Len(idx) |-> cmd[idx[j]].value]

Init ==
    /\ argv \in CommandLines
    /\ OptOutputFilename \in OutputNames
    /\ OptSOName \in SONames
    /\ currentPathError \in FsErrors
    /\ OptInputObjectFiles = ValuesOf(argv, "file")
    /\ filePositions = OccurrencesOf(argv, "file")
    /\ OptNameSpecList = ValuesOf(argv, "l")
    /\ libPositions = OccurrencesOf(argv, "l")
    /\ OptWrapList = ValuesOf(argv, "wrap")
    /\ OptSearchDirList = ValuesOf(argv, "L")
    /\ pc = "DetermineOutputFilename"
    /\ OutputFilename = <<>>
    /\ fileIt = 1
    /\ libIt = 1
    /\ calls = <<>>
    /\ fsCalls = <<>>
    /\ errs = <<>>
    /\ exitStatus = <<>>
    /\ earlier = <<>>

\* ---------------------------------------------------------------------------
\* Helpers

\* A line written to llvm::errs(): its fixed text, the path or name it
\* quotes, and the message of the error code it quotes ("" when none).
Warning(text) ==
    [kind |-> "warning", text |-> text, subject |-> <<>>, detail |-> ""]
Error(text, subject, detail) ==
    [kind |-> "error", text |-> text, subject |-> subject, detail |-> detail]

Call(op, arg, pos, result) ==
    [op |-> op, arg |-> arg, pos |-> pos, result |-> result]

\* A main that binds the inputs without having set the output.
NextStage_NoOutput(stage) ==
    CASE stage = "DetermineOutputFilename" -> "ConfigLinker"
      [] stage = "ConfigLinker" -> "merge"
      [] stage = "setOutput" -> "merge"
      [] stage = "merge" -> "LinkFiles"

\* main.cpp:294-311: the stage main goes on to when a stage returned success
NextStage(stage) ==
    CASE stage = "DetermineOutputFilename" -> "ConfigLinker"
      [] stage = "ConfigLinker" -> "setOutput"
      [] stage = "setOutput" -> "merge"
      [] stage = "merge" -> "LinkFiles"

\* return EXIT_FAILURE / EXIT_SUCCESS from main
Return(code) ==
    /\ pc' = "exit"
    /\ exitStatus' = <<code>>

\* ---------------------------------------------------------------------------
\* DetermineOutputFilename (main.cpp:133-160) and main's test of its result

\* A resolver that never looks at -o.
HasExplicitOutput_Never(pOutputPath) == FALSE

\* main.cpp:135
HasExplicitOutput(pOutputPath) == pOutputPath # <<>>

\* A test that counts the -l namespecs as inputs too.
MoreThanOneInput_CountsNameSpecs ==
    Len(OptInputObjectFiles) + Len(OptNameSpecList) > 1

\* A test that is off by one: two inputs are taken for a single one.
MoreThanOneInput_OffByOne == Len(OptInputObjectFiles) > 2

\* main.cpp:140
MoreThanOneInput == Len(OptInputObjectFiles) > 1

IsAbsolute(path) == Len(path) > 0 /\ path[1] = "/"

\* llvm::sys::fs::make_absolute: an absolute path is left alone; a relative
\* one is appended to the current directory, and the call fails when the
\* current directory cannot be had.
make_absolute(path) ==
    IF IsAbsolute(path) THEN [err |-> errc_success, path |-> path]
    ELSE IF currentPathError # errc_success
    THEN [err |-> currentPathError, path |-> path]
    ELSE [err |-> errc_success, path |-> CurrentDir \o path]

\* A remove_filename that leaves the file name in place.
remove_filename_Kept(path) == path

\* llvm::sys::path::remove_filename: drops the last component.
remove_filename(path) ==
    IF Len(path) = 0 THEN path ELSE SubSeq(path, 1, Len(path) - 1)

\* llvm::sys::path::append
append(path, name) == path \o name

\* A main that does not test what DetermineOutputFilename returned.
ResolutionFailed_Ignored(result) == FALSE

\* main.cpp:295
ResolutionFailed(result) == result = <<>>

\* main.cpp:294-297
AfterDetermine(result) ==
    /\ OutputFilename' = result
    /\ IF ResolutionFailed(result)
       THEN Return(EXIT_FAILURE)
       ELSE pc' = NextStage("DetermineOutputFilename") /\ exitStatus' = exitStatus

\* main.cpp:146-159, with input_path the string element 0 was read as
SingleInput(input_path) ==
    LET abs == make_absolute(input_path) IN
    /\ fsCalls' = Append(fsCalls, input_path)
    /\ IF abs.err # errc_success
       THEN /\ errs' = Append(errs,
                  Error("Failed to determine the absolute path", input_path,
                        abs.err))
            /\ AfterDetermine(<<>>)
       ELSE /\ errs' = errs
            /\ AfterDetermine(append(remove_filename(abs.path),
                                     DEFAULT_OUTPUT_PATH))

\* OptInputObjectFiles[0] on an empty list is undefined behaviour: the
\* process faults, or the read yields some string.
DetermineOutputFilename ==
    /\ pc = "DetermineOutputFilename"
    /\ IF HasExplicitOutput(OptOutputFilename)
       THEN /\ AfterDetermine(OptOutputFilename)
            /\ UNCHANGED <<errs, fsCalls>>
       ELSE IF MoreThanOneInput
       THEN /\ errs' = Append(errs, Warning("Use a.out for output file!"))
            /\ AfterDetermine(DEFAULT_OUTPUT_PATH)
            /\ UNCHANGED fsCalls
       ELSE IF Len(OptInputObjectFiles) = 0
       THEN \/ /\ pc' = "crashed"
               /\ UNCHANGED <<OutputFilename, exitStatus, errs, fsCalls>>
            \/ \E g \in GarbageStrings : SingleInput(g)
       ELSE SingleInput(OptInputObjectFiles[1])
    /\ UNCHANGED <<options, earlier, fileIt, libIt, calls>>

\* ---------------------------------------------------------------------------
\* ConfigLinker (main.cpp:162-211)

\* A configuration that takes -soname even when it was not given.
SOName_AlwaysOption(pOutputFilename) == OptSOName

\* main.cpp:179-182
SOName(pOutputFilename) ==
    IF OptSOName # <<>> THEN OptSOName ELSE pOutputFilename

\* A loop that puts each element in front of those added before it.
AddAll_Reversed(list, added) ==
    added \o [i \in 1..Len(list) |-> list[Len(list) + 1 - i]]

\* main.cpp:193-195 and 198-200: one add per element, first to last
RECURSIVE AddAll(_, _)
AddAll(list, added) ==
    IF list = <<>> THEN added ELSE AddAll(Tail(list), Append(added, Head(list)))

BuildConfig(pOutputFilename) ==
    [soName |-> SOName(pOutputFilename),
     wraps |-> AddAll(OptWrapList, <<>>),
     searchDirs |-> AddAll(OptSearchDirList, <<>>)]

ConfigFailed(result) == kSuccess # result

ConfigLinker ==
    /\ pc = "ConfigLinker"
    /\ \/ \* new (std::nothrow) gave NULL
          /\ errs' = Append(errs,
                Error("Out of memory when create the linker configuration!",
                      <<>>, ""))
          /\ Return(EXIT_FAILURE)
          /\ UNCHANGED calls
       \/ \E result \in ErrorCodes :
          /\ calls' = Append(calls,
                Call("config", BuildConfig(OutputFilename), 0, result))
          /\ IF ConfigFailed(result)
             THEN /\ errs' = Append(errs,
                        Error("Failed to configure the linker!", <<>>, result))
                  /\ Return(EXIT_FAILURE)
             ELSE /\ errs' = errs
                  /\ pc' = NextStage("ConfigLinker")
                  /\ exitStatus' = exitStatus
    /\ UNCHANGED <<options, earlier, OutputFilename, fileIt, libIt, fsCalls>>

\* ---------------------------------------------------------------------------
\* PrepareInputOutput (main.cpp:213-275)

\* A PrepareInputOutput that does not test the result of setOutput.
SetOutputFailed_Ignored(result) == FALSE

\* main.cpp:221
SetOutputFailed(result) == kSuccess # result

\* main.cpp:219-237
SetOutput ==
    /\ pc = "setOutput"
    /\ \E result \in ErrorCodes :
       /\ calls' = Append(calls, Call("setOutput", OutputFilename, 0, result))
       /\ IF SetOutputFailed(result)
          THEN /\ errs' = Append(errs,
                     Error("Failed to open the output file!", OutputFilename,
                           result))
               /\ Return(EXIT_FAILURE)
          ELSE /\ errs' = errs
               /\ pc' = NextStage("setOutput")
               /\ exitStatus' = exitStatus
    /\ fileIt' = 1
    /\ libIt' = 1
    /\ UNCHANGED <<options, earlier, OutputFilename, fsCalls>>

fileEnd == Len(OptInputObjectFiles) + 1
libEnd == Len(OptNameSpecList) + 1

\* main.cpp:239-247
LibPos == IF libIt # libEnd THEN libPositions[libIt] ELSE 0
FilePos == IF fileIt # fileEnd THEN filePositions[fileIt] ELSE 0

\* A merge that takes the object files first, whatever their positions.
TakeFile_FilesFirst(filePos, libPos) == filePos # 0

\* A merge that gives the object file the turn when the positions are equal.
TakeFile_TieToFile(filePos, libPos) ==
    filePos # 0 /\ (libPos = 0 \/ filePos <= libPos)

\* main.cpp:249
TakeFile(filePos, libPos) == filePos # 0 /\ (libPos = 0 \/ filePos < libPos)

\* A merge that takes a namespec only once the object files are used up.
TakeLib_OnlyAfterFiles(filePos, libPos) == libPos # 0 /\ filePos = 0

\* main.cpp:259
TakeLib(filePos, libPos) == libPos # 0 /\ (filePos = 0 \/ libPos < filePos)

\* A loop that forgets to move the cursor on.
Advance_Stuck(it) == it

\* main.cpp:257 and 267: ++fileIt, ++libIt
Advance(it) == it + 1

\* A loop that goes on after a failed addObject.
AddObjectFailed_Ignored(result) == FALSE

AddObjectFailed(result) == kSuccess # result
AddNameSpecFailed(result) == kSuccess # result

\* One pass through the body of while (true), main.cpp:238-272; leaving the
\* loop returns true to main, which goes on to LinkFiles.
MergeStep ==
    /\ pc = "merge"
    /\ IF TakeFile(FilePos, LibPos)
       THEN \E result \in ErrorCodes :
            /\ calls' = Append(calls,
                  Call("addObject", OptInputObjectFiles[fileIt], FilePos, result))
            /\ IF AddObjectFailed(result)
               THEN /\ errs' = Append(errs,
                          Error("Failed to open the input file!",
                                OptInputObjectFiles[fileIt], result))
                    /\ Return(EXIT_FAILURE)
                    /\ UNCHANGED fileIt
               ELSE /\ fileIt' = Advance(fileIt)
                    /\ UNCHANGED <<errs, pc, exitStatus>>
            /\ UNCHANGED libIt
       ELSE IF TakeLib(FilePos, LibPos)
       THEN \E result \in ErrorCodes :
            /\ calls' = Append(calls,
                  Call("addNameSpec", OptNameSpecList[libIt], LibPos, result))
            /\ IF AddNameSpecFailed(result)
               THEN /\ errs' = Append(errs,
                          Error("Failed to open the namespec!",
                                OptNameSpecList[libIt], result))
                    /\ Return(EXIT_FAILURE)
                    /\ UNCHANGED libIt
               ELSE /\ libIt' = Advance(libIt)
                    /\ UNCHANGED <<errs, pc, exitStatus>>
            /\ UNCHANGED fileIt
       ELSE /\ pc' = NextStage("merge")
            /\ UNCHANGED <<calls, errs, exitStatus, fileIt, libIt>>
    /\ UNCHANGED <<options, earlier, OutputFilename, fsCalls>>

\* ---------------------------------------------------------------------------
\* LinkFiles (main.cpp:277-286) and the end of main

LinkFailed(result) == kSuccess # result

LinkFiles ==
    /\ pc = "LinkFiles"
    /\ \E result \in ErrorCodes :
       /\ calls' = Append(calls, Call("link", <<>>, 0, result))
       /\ IF LinkFailed(result)
          THEN /\ errs' = Append(errs, Error("Failed to linking!", <<>>, result))
               /\ Return(EXIT_FAILURE)
          ELSE /\ errs' = errs
               /\ Return(EXIT_SUCCESS)
    /\ UNCHANGED <<options, earlier, OutputFilename, fileIt, libIt, fsCalls>>

\* ---------------------------------------------------------------------------

Next ==
    \/ DetermineOutputFilename
    \/ ConfigLinker
    \/ SetOutput
    \/ MergeStep
    \/ LinkFiles

Spec == Init /\ [][Next]_vars

\* main() runs on one thread and every step is a blocking call that returns:
\* a step that can be taken is taken.
SpecFair == Spec /\ WF_vars(Next)

\* ---------------------------------------------------------------------------
\* DetermineOutputFilename as a function of the options and the file system,
\* called twice: once the first call has returned (main.cpp:294), its result
\* is kept and the function is called again on the same options.

CallAgain ==
    /\ pc \in {"ConfigLinker", "exit"}
    /\ calls = <<>>
    /\ earlier = <<>>
    /\ earlier' = Append(earlier, OutputFilename)
    /\ pc' = "DetermineOutputFilename"
    /\ exitStatus' = <<>>
    /\ UNCHANGED <<options, OutputFilename, fileIt, libIt, calls, fsCalls, errs>>

NextTwice ==
    \/ DetermineOutputFilename
    \/ CallAgain

SpecTwice == Init /\ [][NextTwice]_vars

\* ---------------------------------------------------------------------------
\* Properties

IsAdd(c) == c.op \in {"addObject", "addNameSpec"}

AddCalls == SelectSeq(calls, IsAdd)

\* The inputs as the user wrote them: the positional and -l occurrences of
\* the command line, left to right.
IsInput(t) == t.kind \in {"file", "l"}

MergedInputs == SelectSeq(argv, IsInput)

AllPositions ==
    {filePositions[i] : i \in 1..Len(filePositions)}
    \cup {libPositions[i] : i \in 1..Len(libPositions)}

StrictlyIncreasing(s) == \A i, j \in 1..Len(s) : i < j => s[i] < s[j]

\* Positions are positive, increase strictly within each list, and no
\* position is in both lists.
PositionsWellFormed ==
    /\ Len(filePositions) = Len(OptInputObjectFiles)
    /\ Len(libPositions) = Len(OptNameSpecList)
    /\ StrictlyIncreasing(filePositions)
    /\ StrictlyIncreasing(libPositions)
    /\ 0 \notin AllPositions
    /\ Cardinality(AllPositions) = Len(filePositions) + Len(libPositions)

\* PrepareInputOutput returned true.
InputsBound == pc = "LinkFiles" \/ \E i \in 1..Len(calls) : calls[i].op = "link"

\* The stage of the pipeline a diagnostic belongs to.
StageOf(d) ==
    CASE d.text = "Failed to determine the absolute path" -> "resolve"
      [] d.text = "Out of memory when create the linker configuration!" -> "configure"
      [] d.text = "Failed to configure the linker!" -> "configure"
      [] d.text = "Failed to open the output file!" -> "output"
      [] d.text = "Failed to open the input file!" -> "input"
      [] d.text = "Failed to open the namespec!" -> "input"
      [] d.text = "Failed to linking!" -> "link"
      [] OTHER -> "none"

ErrorsReported == SelectSeq(errs, LAMBDA d : d.kind = "error")
WarningsReported == SelectSeq(errs, LAMBDA d : d.kind = "warning")

\* C1: with well-formed positions, once PrepareInputOutput has returned
\* success the positions of the inputs handed to the engine are the strictly
\* increasing sequence of all positions of both lists, and each call carries
\* the value and the kind the command line has at that position.
C1_OrderPreservation ==
    (PositionsWellFormed /\ InputsBound) =>
        LET adds == AddCalls IN
        /\ Len(adds) = Len(OptInputObjectFiles) + Len(OptNameSpecList)
        /\ StrictlyIncreasing([i \in 1..Len(adds) |-> adds[i].pos])
        /\ {adds[i].pos : i \in 1..Len(adds)} = AllPositions
        /\ \A i \in 1..Len(adds) :
             /\ adds[i].arg = argv[adds[i].pos].value
             /\ adds[i].op = "addObject" <=> argv[adds[i].pos].kind = "file"

C1_Witness ==
    /\ PositionsWellFormed
    /\ InputsBound
    /\ Len(OptInputObjectFiles) = 2
    /\ Len(OptNameSpecList) = 1
    /\ filePositions[1] < libPositions[1]
    /\ libPositions[1] < filePositions[2]
    /\ OptInputObjectFiles[1] # OptInputObjectFiles[2]

\* C2: a failed addObject or addNameSpec is the last engine operation of the
\* run (no later input is handed over, link is not invoked); it is the k-th
\* add call for the k-th input of the command line, the run has exited with
\* failure, and the one error reported is of the input stage and names that
\* k-th input.
C2_FailFastOnBindError ==
    \A i \in 1..Len(calls) :
        (IsAdd(calls[i]) /\ calls[i].result # kSuccess) =>
            LET k == Len(AddCalls) IN
            /\ i = Len(calls)
            /\ calls[i].arg = MergedInputs[k].value
            /\ pc = "exit"
            /\ exitStatus = <<EXIT_FAILURE>>
            /\ Len(ErrorsReported) = 1
            /\ StageOf(ErrorsReported[1]) = "input"
            /\ ErrorsReported[1].subject = MergedInputs[k].value

C2_Witness ==
    /\ Len(calls) = 4
    /\ calls[4].op = "addObject"
    /\ calls[4].result # kSuccess
    /\ calls[3].op = "addNameSpec"
    /\ Len(MergedInputs) = 3
    /\ fileIt # fileEnd
    /\ pc = "exit"

\* C3: the engine operations of a run are config, then setOutput, then the
\* add calls, then link; an input is added only after setOutput succeeded,
\* and link is invoked only after config, setOutput and the add of every
\* input succeeded.
C3_StageOrdering ==
    /\ \A i \in 1..Len(calls) :
         /\ calls[i].op = "config" <=> i = 1
         /\ calls[i].op = "setOutput" <=> i = 2
         /\ i > 2 => (IsAdd(calls[i]) \/ (calls[i].op = "link" /\ i = Len(calls)))
         /\ IsAdd(calls[i]) =>
              calls[2].op = "setOutput" /\ calls[2].result = kSuccess
         /\ calls[i].op = "link" =>
              /\ \A j \in 1..(i - 1) : calls[j].result = kSuccess
              /\ Len(AddCalls) = Len(MergedInputs)
    /\ pc \in {"merge", "LinkFiles"} =>
         Len(calls) >= 2 /\ calls[2].op = "setOutput" /\ calls[2].result = kSuccess

C3_Witness ==
    /\ Len(calls) = 5
    /\ calls[5].op = "link"
    /\ calls[3].op = "addNameSpec"
    /\ calls[4].op = "addObject"

\* The run is over: main returned, or the process faulted.
Terminated == pc \in {"exit", "crashed"}

Resolved == pc # "DetermineOutputFilename"

\* Output resolution, config, setOutput, the add of every input and link
\* all succeeded.
AllStagesSucceeded ==
    /\ Resolved
    /\ OutputFilename # <<>>
    /\ Len(calls) = Len(MergedInputs) + 3
    /\ calls[Len(calls)].op = "link"
    /\ \A i \in 1..Len(calls) : calls[i].result = kSuccess

\* C4: a run that is over has exit code 0 exactly when every stage
\* succeeded, and exit code 1 when a stage failed.
C4_ExitCodes ==
    Terminated =>
        /\ exitStatus = <<EXIT_SUCCESS>> <=> AllStagesSucceeded
        /\ ~AllStagesSucceeded => exitStatus = <<EXIT_FAILURE>>

\* C5: with no positional input and no -o, the run ends at output
\* resolution with an error reported and exit code 1, and no engine
\* operation is ever invoked.
C5_ZeroInputsNoOutputFails ==
    (OptInputObjectFiles = <<>> /\ OptOutputFilename = <<>> /\ Resolved) =>
        /\ pc = "exit"
        /\ exitStatus = <<EXIT_FAILURE>>
        /\ Len(ErrorsReported) = 1
        /\ calls = <<>>

\* C6: when -o is given, the resolved output is the -o value whatever the
\* number of inputs and whatever the file system answers; no warning is
\* written, element 0 of the input list is not read (the run does not fault
\* on an empty list) and make_absolute is not called.
C6_ExplicitOutputWins ==
    (OptOutputFilename # <<>> /\ Resolved) =>
        /\ OutputFilename = OptOutputFilename
        /\ WarningsReported = <<>>
        /\ fsCalls = <<>>
        /\ pc # "crashed"
        /\ pc = "ConfigLinker" => errs = <<>>

C6_Witness ==
    /\ OptOutputFilename # <<>>
    /\ OptInputObjectFiles = <<>>
    /\ currentPathError # errc_success
    /\ pc = "ConfigLinker"
    /\ OutputFilename = <<"out.bin">>

\* C7: with no -o and more than one positional input, the resolved output
\* is a.out and the warning is written once in the whole run.
C7_MultiInputDefault ==
    (OptOutputFilename = <<>> /\ Len(OptInputObjectFiles) > 1) =>
        IF Resolved
        THEN /\ OutputFilename = DEFAULT_OUTPUT_PATH
             /\ Len(WarningsReported) = 1
             /\ fsCalls = <<>>
        ELSE WarningsReported = <<>>

C7_Witness ==
    /\ OptOutputFilename = <<>>
    /\ Len(OptInputObjectFiles) = 2
    /\ Len(OptNameSpecList) = 1
    /\ pc = "exit"
    /\ exitStatus = <<EXIT_SUCCESS>>
    /\ Len(WarningsReported) = 1

\* The absolute form of a path, given that the current directory can be had.
AbsoluteForm(path) ==
    IF path # <<>> /\ Head(path) = "/" THEN path ELSE CurrentDir \o path

AbsoluteResolvable(path) ==
    (path # <<>> /\ Head(path) = "/") \/ currentPathError = errc_success

\* C8: with no -o and one positional input whose absolute form can be had,
\* the resolved output is that absolute form with its last component
\* replaced by a.out (/tmp/x/y.o gives /tmp/x/a.out), and no warning is
\* written.
C8_SingleInputInference ==
    (/\ OptOutputFilename = <<>>
     /\ Len(OptInputObjectFiles) = 1
     /\ AbsoluteResolvable(OptInputObjectFiles[1])
     /\ Resolved) =>
        LET abs == AbsoluteForm(OptInputObjectFiles[1]) IN
        /\ OutputFilename = [abs EXCEPT ![Len(abs)] = "a.out"]
        /\ OptInputObjectFiles[1] = <<"/", "tmp", "x", "y.o">> =>
             OutputFilename = <<"/", "tmp", "x", "a.out">>
        /\ OptInputObjectFiles[1] = <<"b.o">> =>
             OutputFilename = CurrentDir \o <<"a.out">>
        /\ WarningsReported = <<>>
        /\ pc # "exit" => errs = <<>>

C8_Witness ==
    /\ OptOutputFilename = <<>>
    /\ OptInputObjectFiles = << <<"/", "tmp", "x", "y.o">> >>
    /\ Len(OptNameSpecList) = 2
    /\ pc = "ConfigLinker"
    /\ OutputFilename = <<"/", "tmp", "x", "a.out">>

\* C9: the configuration handed to config has soName equal to -soname when
\* that is given and to the resolved output otherwise, and the resolved
\* output is the very string handed to setOutput.
C9_SONameDefault ==
    \A i \in 1..Len(calls) :
        /\ calls[i].op = "config" =>
             /\ OptSOName # <<>> => calls[i].arg.soName = OptSOName
             /\ OptSOName = <<>> =>
                  /\ calls[i].arg.soName = OutputFilename
                  /\ \A j \in 1..Len(calls) :
                       calls[j].op = "setOutput" =>
                           calls[j].arg = calls[i].arg.soName
        /\ calls[i].op = "setOutput" => calls[i].arg = OutputFilename

C9_Witness ==
    /\ OptSOName = <<>>
    /\ OptOutputFilename = <<>>
    /\ Len(calls) >= 2
    /\ calls[1].op = "config"
    /\ calls[2].op = "setOutput"
    /\ calls[1].arg.soName = CurrentDir \o <<"a.out">>
    /\ calls[2].arg = CurrentDir \o <<"a.out">>

\* C10: an engine operation that returned a code other than kSuccess is the
\* last one of the run, and the run has exited with failure: after a failed
\* config there is no setOutput, after a failed setOutput no input is added.
C10_FailureAborts ==
    \A i \in 1..Len(calls) :
        calls[i].result # kSuccess =>
            /\ i = Len(calls)
            /\ pc = "exit"
            /\ exitStatus = <<EXIT_FAILURE>>
            /\ calls[i].op = "config" => Len(calls) = 1
            /\ calls[i].op = "setOutput" => AddCalls = <<>>

C10_Witness ==
    /\ Len(calls) = 2
    /\ calls[2].op = "setOutput"
    /\ calls[2].result # kSuccess
    /\ Len(MergedInputs) >= 2
    /\ pc = "exit"

\* The number of engine operations of a kind invoked so far.
TimesCalled(op) == Cardinality({i \in 1..Len(calls) : calls[i].op = op})

\* The order in which main goes through its stages.
StageRank(stage) ==
    CASE stage = "DetermineOutputFilename" -> 1
      [] stage = "ConfigLinker" -> 2
      [] stage = "setOutput" -> 3
      [] stage = "merge" -> 4
      [] stage = "LinkFiles" -> 5
      [] OTHER -> 6

\* C11: no stage is entered again and nothing is tried again: config,
\* setOutput and link are each invoked at most once, no input (an element of
\* either list, told apart by its position) is handed to the engine more
\* than once, whether its add succeeded or not, and main never steps back to
\* an earlier stage.
C11_NoReentryNoRetry ==
    /\ [](/\ TimesCalled("config") <= 1
          /\ TimesCalled("setOutput") <= 1
          /\ TimesCalled("link") <= 1
          /\ \A i, j \in 1..Len(calls) :
               (IsAdd(calls[i]) /\ IsAdd(calls[j]) /\ i # j) =>
                   calls[i].pos # calls[j].pos)
    /\ [][/\ StageRank(pc') >= StageRank(pc)
          /\ pc' = pc => pc = "merge"
          /\ Len(calls') <= Len(calls) + 1]_vars

C11_Witness ==
    /\ pc = "exit"
    /\ Len(calls) = 4
    /\ calls[3].op = "addObject"
    /\ calls[4].op = "addObject"
    /\ calls[3].arg = calls[4].arg
    /\ calls[4].result # kSuccess

\* The stage whose failure ended the run.
FailedStage ==
    IF calls = <<>>
    THEN (IF OutputFilename = <<>> THEN "resolve" ELSE "configure")
    ELSE LET last == calls[Len(calls)] IN
         CASE last.op = "config" -> "configure"
           [] last.op = "setOutput" -> "output"
           [] IsAdd(last) -> "input"
           [] last.op = "link" -> "link"

\* C12: a run that ended without success has written exactly one error,
\* that of the stage that failed, and a run that ended with success has
\* written none.
C12_FailureAttribution ==
    Terminated =>
        IF exitStatus = <<EXIT_SUCCESS>>
        THEN ErrorsReported = <<>>
        ELSE /\ Len(ErrorsReported) = 1
             /\ StageOf(ErrorsReported[1]) = FailedStage

\* C13: the configuration handed to config holds the -wrap symbols and the
\* -L directories of the command line, each list in the order of its
\* occurrences, repeated values kept and none left out.
C13_ConfigListOrder ==
    \A i \in 1..Len(calls) :
        calls[i].op = "config" =>
            LET wrapAt == SelectSeq([k \in 1..Len(argv) |-> k],
                                    LAMBDA k : argv[k].kind = "wrap")
                dirAt == SelectSeq([k \in 1..Len(argv) |-> k],
                                   LAMBDA k : argv[k].kind = "L")
            IN /\ Len(calls[i].arg.wraps) = Len(wrapAt)
               /\ \A k \in 1..Len(wrapAt) :
                    calls[i].arg.wraps[k] = argv[wrapAt[k]].value
               /\ Len(calls[i].arg.searchDirs) = Len(dirAt)
               /\ \A k \in 1..Len(dirAt) :
                    calls[i].arg.searchDirs[k] = argv[dirAt[k]].value

C13_Witness ==
    /\ Len(calls) >= 1
    /\ calls[1].op = "config"
    /\ calls[1].arg.wraps = << <<"malloc">>, <<"free">>, <<"malloc">> >>

Remaining == (fileEnd - fileIt) + (libEnd - libIt)

\* C15: the merge loop ends: a pass through its body either moves exactly
\* one cursor on by one (and hands that input over), or ends the run on a
\* failed add, or leaves the loop with both cursors at the end, where both
\* candidate positions are 0; and the loop is left after finitely many
\* passes.
C15_MergeTermination ==
    /\ [][pc = "merge" =>
            \/ /\ pc' = "merge"
               /\ Remaining' = Remaining - 1
               /\ \/ fileIt' = fileIt + 1 /\ libIt' = libIt
                  \/ libIt' = libIt + 1 /\ fileIt' = fileIt
               /\ Len(calls') = Len(calls) + 1
            \/ /\ pc' = "exit"
               /\ calls'[Len(calls')].result # kSuccess
               /\ fileIt' = fileIt /\ libIt' = libIt
            \/ /\ pc' = "LinkFiles"
               /\ fileIt = fileEnd /\ libIt = libEnd
               /\ FilePos = 0 /\ LibPos = 0
               /\ fileIt' = fileIt /\ libIt' = libIt
               /\ calls' = calls]_vars
    /\ [](fileIt <= fileEnd /\ libIt <= libEnd)
    /\ (pc = "merge") ~> (pc # "merge")

C15_Witness ==
    /\ pc = "LinkFiles"
    /\ fileIt = fileEnd
    /\ libIt = libEnd
    /\ Len(OptInputObjectFiles) = 1
    /\ Len(OptNameSpecList) = 2
    /\ Len(AddCalls) = 3

\* The add calls that handed over the input found at a position.
CallsAt(pos) == {i \in 1..Len(calls) : IsAdd(calls[i]) /\ calls[i].pos = pos}

\* C16: once PrepareInputOutput has returned success, each positional object
\* file has gone to addObject in exactly one call and to addNameSpec in
\* none, each -l namespec has gone to addNameSpec in exactly one call and to
\* addObject in none, and the engine has had exactly N+M add calls, all of
\* them before link.
C16_CompleteKindCorrectBinding ==
    (PositionsWellFormed /\ InputsBound) =>
        /\ \A k \in 1..Len(OptInputObjectFiles) :
             /\ Cardinality(CallsAt(filePositions[k])) = 1
             /\ \A i \in CallsAt(filePositions[k]) :
                  /\ calls[i].op = "addObject"
                  /\ calls[i].arg = OptInputObjectFiles[k]
                  /\ calls[i].result = kSuccess
        /\ \A k \in 1..Len(OptNameSpecList) :
             /\ Cardinality(CallsAt(libPositions[k])) = 1
             /\ \A i \in CallsAt(libPositions[k]) :
                  /\ calls[i].op = "addNameSpec"
                  /\ calls[i].arg = OptNameSpecList[k]
                  /\ calls[i].result = kSuccess
        /\ TimesCalled("addObject") = Len(OptInputObjectFiles)
        /\ TimesCalled("addNameSpec") = Len(OptNameSpecList)
        /\ \A i, j \in 1..Len(calls) :
             (IsAdd(calls[i]) /\ calls[j].op = "link") => i < j

C16_Witness ==
    /\ PositionsWellFormed
    /\ TimesCalled("link") = 1
    /\ Len(OptInputObjectFiles) = 1
    /\ Len(OptNameSpecList) = 2
    /\ OptNameSpecList[1] = OptNameSpecList[2]
    /\ libPositions[1] < filePositions[1]
    /\ TimesCalled("addNameSpec") = 2

\* C17: with no -o and one positional input whose absolute form cannot be
\* had, DetermineOutputFilename returns the empty string after writing one
\* error that quotes the input path and the message of the error code; the
\* run exits with failure and no engine operation is invoked.  In no run
\* does an engine operation see an empty output path.
C17_ResolutionFailureStops ==
    /\ (/\ OptOutputFilename = <<>>
        /\ Len(OptInputObjectFiles) = 1
        /\ ~AbsoluteResolvable(OptInputObjectFiles[1])
        /\ Resolved) =>
           /\ OutputFilename = <<>>
           /\ errs = << [kind |-> "error",
                         text |-> "Failed to determine the absolute path",
                         subject |-> OptInputObjectFiles[1],
                         detail |-> currentPathError] >>
           /\ fsCalls = <<OptInputObjectFiles[1]>>
           /\ pc = "exit"
           /\ exitStatus = <<EXIT_FAILURE>>
           /\ calls = <<>>
    /\ (Resolved /\ OutputFilename = <<>> /\ pc # "crashed") =>
           pc = "exit" /\ exitStatus = <<EXIT_FAILURE>> /\ calls = <<>>
    /\ \A i \in 1..Len(calls) :
           /\ OutputFilename # <<>>
           /\ calls[i].op = "setOutput" => calls[i].arg # <<>>
           /\ calls[i].op = "config" => calls[i].arg.soName # <<>>

C17_Witness ==
    /\ OptOutputFilename = <<>>
    /\ OptInputObjectFiles = << <<"b.o">> >>
    /\ Len(OptNameSpecList) = 2
    /\ currentPathError # errc_success
    /\ pc = "exit"
    /\ OutputFilename = <<>>
    /\ Len(errs) = 1

\* ---------------------------------------------------------------------------
\* PrepareInputOutput on any two position lists.  The loop reads the
\* positions only through getPosition (main.cpp:240, 245); here the two
\* lists carry any positive positions that increase within each list, so
\* that an object file and a namespec may carry the same one.  The command
\* line itself is not part of this specification (argv is empty), -o is
\* given and there are no -wrap or -L occurrences.

IncreasingPositions(n) ==
    {p \in [1..n -> 1..MaxArgs] : StrictlyIncreasing(p)}

InitAnyPositions ==
    /\ argv = <<>>
    /\ OptOutputFilename \in OutputNames \ {<<>>}
    /\ OptSOName = <<>>
    /\ currentPathError = errc_success
    /\ \E nf, nl \in 0..MaxArgs :
         /\ nf + nl <= MaxArgs
         /\ OptInputObjectFiles \in [1..nf -> FilePaths]
         /\ filePositions \in IncreasingPositions(nf)
         /\ OptNameSpecList \in [1..nl -> NameSpecs]
         /\ libPositions \in IncreasingPositions(nl)
    /\ OptWrapList = <<>>
    /\ OptSearchDirList = <<>>
    /\ pc = "DetermineOutputFilename"
    /\ OutputFilename = <<>>
    /\ fileIt = 1
    /\ libIt = 1
    /\ calls = <<>>
    /\ fsCalls = <<>>
    /\ errs = <<>>
    /\ exitStatus = <<>>
    /\ earlier = <<>>

SpecAnyPositions == InitAnyPositions /\ [][Next]_vars

\* The two candidates of the merge loop carry the same position.
Tie == fileIt # fileEnd /\ libIt # libEnd /\ FilePos # 0 /\ FilePos = LibPos

\* C18: when the object file and the namespec the cursors are at carry the
\* same non-zero position, the pass of the loop leaves the loop: nothing is
\* added, nothing is written, PrepareInputOutput returns true and main goes
\* on to LinkFiles; link is then invoked with every input from the two
\* cursors on never handed to the engine.
C18_TieLeavesLoop ==
    /\ [][(pc = "merge" /\ Tie) =>
            /\ pc' = "LinkFiles"
            /\ calls' = calls
            /\ errs' = errs
            /\ exitStatus' = exitStatus
            /\ fileIt' = fileIt /\ libIt' = libIt]_vars
    /\ []((InputsBound /\ Tie) =>
            /\ Len(AddCalls) = (fileIt - 1) + (libIt - 1)
            /\ Len(AddCalls) < Len(OptInputObjectFiles) + Len(OptNameSpecList)
            /\ \A i \in 1..Len(calls) : IsAdd(calls[i]) => calls[i].pos < FilePos
            /\ pc = "LinkFiles" => errs = <<>>
            /\ exitStatus = <<EXIT_FAILURE>> => calls[Len(calls)].op = "link")
    /\ []((InputsBound /\ ~Tie) => (fileIt = fileEnd /\ libIt = libEnd))

C18_Witness ==
    /\ Tie
    /\ pc = "exit"
    /\ exitStatus = <<EXIT_SUCCESS>>
    /\ errs = <<>>
    /\ calls[Len(calls)].op = "link"
    /\ Len(AddCalls) = 1
    /\ Len(OptInputObjectFiles) + Len(OptNameSpecList) = 3

\* C19: with no -o, what the resolver does is decided by the number of
\* positional object files alone, whatever the number of -l namespecs: with
\* more than one it returns a.out and element 0 is not read; with exactly
\* one it reads that file and returns the name derived from its directory
\* (or the empty string when the absolute form cannot be had); with none,
\* also when -l namespecs are given, it reads element 0 of the empty list.
C19_InputCountIsObjectFileCount ==
    (OptOutputFilename = <<>> /\ Resolved) =>
        /\ Len(OptInputObjectFiles) > 1 =>
             /\ OutputFilename = DEFAULT_OUTPUT_PATH
             /\ Len(WarningsReported) = 1
             /\ fsCalls = <<>>
             /\ pc # "crashed"
        /\ Len(OptInputObjectFiles) = 1 =>
             /\ fsCalls = <<OptInputObjectFiles[1]>>
             /\ WarningsReported = <<>>
             /\ pc # "crashed"
             /\ IF AbsoluteResolvable(OptInputObjectFiles[1])
                THEN LET abs == AbsoluteForm(OptInputObjectFiles[1]) IN
                     OutputFilename = [abs EXCEPT ![Len(abs)] = "a.out"]
                ELSE OutputFilename = <<>>
        /\ Len(OptInputObjectFiles) = 0 =>
             /\ WarningsReported = <<>>
             /\ \/ pc = "crashed"
                \/ Len(fsCalls) = 1 /\ fsCalls[1] \in GarbageStrings

C19_Witness ==
    /\ OptOutputFilename = <<>>
    /\ OptInputObjectFiles = <<>>
    /\ Len(OptNameSpecList) = 2
    /\ pc = "crashed"

====
